---- MODULE Spec2Model ----
(***************************************************************************)
(* Range resolver of the data-page reader                                  *)
(* (src/page_reader/data_page_v1/data_page_base.rs, trait DataPage).       *)
(*                                                                         *)
(* The two default methods get_data_page_covered_range and                 *)
(* get_data_page_remaining_range are pure functions over usize values.     *)
(* They are modelled as operators that compute what the Rust code          *)
(* computes, step by step, including the usize arithmetic: an addition or  *)
(* subtraction that leaves the usize range panics in a build with          *)
(* overflow checks (debug profile) and wraps in a build without them       *)
(* (release profile).  The build profile is a nondeterministic choice of   *)
(* Init.                                                                   *)
(*                                                                         *)
(* Spec     : the inputs are drawn from bounded sets by Init, and the two  *)
(*            methods are applied to them.                                 *)
(* ScanSpec : the per-page scan loop that feeds the remaining range of one *)
(*            page to the next page.                                       *)
(***************************************************************************)
EXTENDS Integers, Naturals, FiniteSets, Sequences, TLC

\* ---------------------------------------------------------------- bounds
\* largest page bound, offset and row position drawn as an input
MaxVal == 4
\* largest value count of a page visited by the scan
MaxCount == 2
\* number of page transitions of a scan
MaxPages == 3

\* Largest number the scan can form without leaving the usize range.
TopLegit == 2 * MaxVal + (MaxPages + 2) * MaxCount

\* The usize word.  The program's word is 2^64; the model scales it with
\* the input bounds so that every number formed from un-wrapped inputs is
\* below half of it: a wrapped difference is then, as in the program,
\* larger than every genuine row position.
UsizeModulus == 2 * TopLegit + 2

VARIABLES page_begin, page_end, offset, row_range, overflow_checks,
          covered_res, remaining_res, page_no

vars == <<page_begin, page_end, offset, row_range, overflow_checks,
          covered_res, remaining_res, page_no>>

\* ------------------------------------------------------------ arithmetic
Min(a, b) == IF a <= b THEN a ELSE b
Max(a, b) == IF a >= b THEN a ELSE b

\* usize `a + b`: ok = FALSE is the overflow panic of a checked build.
usize_add(a, b, chk) ==
    IF a + b < UsizeModulus THEN [ok |-> TRUE, val |-> a + b]
    ELSE IF chk THEN [ok |-> FALSE, val |-> 0]
    ELSE [ok |-> TRUE, val |-> (a + b) % UsizeModulus]

\* usize `a - b`: ok = FALSE is the overflow panic of a checked build.
usize_sub(a, b, chk) ==
    IF a >= b THEN [ok |-> TRUE, val |-> a - b]
    ELSE IF chk THEN [ok |-> FALSE, val |-> 0]
    ELSE [ok |-> TRUE, val |-> (a - b) % UsizeModulus]

\* RowRange { begin, end }
RowRange(b, e) == [begin |-> b, end |-> e]

\* ----------------------------------------------------- results of a call
\* kind: "NotCalled" | "Err" | "None" | "Some" | "Panic"
\* sub : the expression page_end - offset was evaluated by the call
NotCalled == [kind |-> "NotCalled", begin |-> 0, end |-> 0, sub |-> FALSE]
ErrRange(s) == [kind |-> "Err", begin |-> 0, end |-> 0, sub |-> s]
OkNone == [kind |-> "None", begin |-> 0, end |-> 0, sub |-> FALSE]
OkSome(b, e) == [kind |-> "Some", begin |-> b, end |-> e, sub |-> TRUE]
Panic(s) == [kind |-> "Panic", begin |-> 0, end |-> 0, sub |-> s]

\* --------------------------------------------- get_data_page_covered_range
\* mutant: the clamp page_end - offset is computed before the range check
covered_range_clamp_first(pb, pe, off, rr, chk) ==
    LET b == usize_add(rr.begin, off, chk)
        d == usize_sub(pe, off, chk)
    IN  IF ~b.ok THEN Panic(FALSE)
        ELSE IF ~d.ok THEN Panic(TRUE)
        ELSE IF b.val < pb THEN ErrRange(TRUE)
        ELSE IF b.val >= pb /\ b.val <= pe
             THEN OkSome(rr.begin, Min(rr.end, d.val))
        ELSE OkNone

\* mutant: the page's last row is excluded (begin < page_end)
covered_range_exclusive_end(pb, pe, off, rr, chk) ==
    LET b == usize_add(rr.begin, off, chk)
    IN  IF ~b.ok THEN Panic(FALSE)
        ELSE IF b.val < pb THEN ErrRange(FALSE)
        ELSE IF b.val >= pb /\ b.val < pe
             THEN LET d == usize_sub(pe, off, chk)
                  IN  IF ~d.ok THEN Panic(TRUE)
                      ELSE OkSome(rr.begin, Min(rr.end, d.val))
        ELSE OkNone

\* mutant: the end of the covered range is not clamped to the page
covered_range_unclamped(pb, pe, off, rr, chk) ==
    LET b == usize_add(rr.begin, off, chk)
    IN  IF ~b.ok THEN Panic(FALSE)
        ELSE IF b.val < pb THEN ErrRange(FALSE)
        ELSE IF b.val >= pb /\ b.val <= pe
             THEN OkSome(rr.begin, rr.end)
        ELSE OkNone

get_data_page_covered_range(pb, pe, off, rr, chk) ==
    LET b == usize_add(rr.begin, off, chk)              \* line 38
    IN  IF ~b.ok THEN Panic(FALSE)
        ELSE IF b.val < pb THEN ErrRange(FALSE)         \* lines 40-42
        ELSE IF b.val >= pb /\ b.val <= pe              \* line 44
             THEN LET d == usize_sub(pe, off, chk)      \* line 47
                  IN  IF ~d.ok THEN Panic(TRUE)
                      ELSE OkSome(rr.begin, Min(rr.end, d.val))
        ELSE OkNone                                     \* line 51

\* ------------------------------------------- get_data_page_remaining_range
\* mutant: the remaining range starts at the row after the page's last row
remaining_range_next_row(pb, pe, off, rr, chk) ==
    LET b == usize_add(rr.begin, off, chk)
        e == usize_add(rr.end, off, chk)
    IN  IF ~b.ok \/ ~e.ok THEN Panic(FALSE)
        ELSE IF b.val < pb THEN ErrRange(FALSE)
        ELSE IF e.val <= pe THEN OkNone
        ELSE LET d == usize_sub(pe, off, chk)
             IN  IF ~d.ok THEN Panic(TRUE)
                 ELSE OkSome(Max(rr.begin, d.val + 1), rr.end)

\* mutant: a range that ends on the page's last row is reported remaining
remaining_range_exclusive_end(pb, pe, off, rr, chk) ==
    LET b == usize_add(rr.begin, off, chk)
        e == usize_add(rr.end, off, chk)
    IN  IF ~b.ok \/ ~e.ok THEN Panic(FALSE)
        ELSE IF b.val < pb THEN ErrRange(FALSE)
        ELSE IF e.val < pe THEN OkNone
        ELSE LET d == usize_sub(pe, off, chk)
             IN  IF ~d.ok THEN Panic(TRUE)
                 ELSE OkSome(Max(rr.begin, d.val), rr.end)

\* mutant: the range check also rejects a range that starts on page_begin
remaining_range_check_inclusive(pb, pe, off, rr, chk) ==
    LET b == usize_add(rr.begin, off, chk)
        e == usize_add(rr.end, off, chk)
    IN  IF ~b.ok \/ ~e.ok THEN Panic(FALSE)
        ELSE IF b.val <= pb THEN ErrRange(FALSE)
        ELSE IF e.val <= pe THEN OkNone
        ELSE LET d == usize_sub(pe, off, chk)
             IN  IF ~d.ok THEN Panic(TRUE)
                 ELSE OkSome(Max(rr.begin, d.val), rr.end)

get_data_page_remaining_range(pb, pe, off, rr, chk) ==
    LET b == usize_add(rr.begin, off, chk)              \* line 61
        e == usize_add(rr.end, off, chk)                \* line 62
    IN  IF ~b.ok \/ ~e.ok THEN Panic(FALSE)
        ELSE IF b.val < pb THEN ErrRange(FALSE)         \* lines 64-66
        ELSE IF e.val <= pe THEN OkNone                 \* lines 68-70
        ELSE LET d == usize_sub(pe, off, chk)           \* line 73
             IN  IF ~d.ok THEN Panic(TRUE)
                 ELSE OkSome(Max(rr.begin, d.val), rr.end)

\* ------------------------------------------------ Spec: the pure functions
Vals == 0..MaxVal

Init ==
    /\ page_begin \in Vals
    /\ page_end \in Vals
    /\ offset \in Vals
    /\ row_range \in {RowRange(b, e) : b \in Vals, e \in Vals}
    /\ overflow_checks \in BOOLEAN
    /\ covered_res = NotCalled
    /\ remaining_res = NotCalled
    /\ page_no = 0

CallCovered ==
    /\ covered_res.kind = "NotCalled"
    /\ covered_res' = get_data_page_covered_range(
                          page_begin, page_end, offset, row_range,
                          overflow_checks)
    /\ UNCHANGED <<page_begin, page_end, offset, row_range, overflow_checks,
                   remaining_res, page_no>>

CallRemaining ==
    /\ remaining_res.kind = "NotCalled"
    /\ remaining_res' = get_data_page_remaining_range(
                            page_begin, page_end, offset, row_range,
                            overflow_checks)
    /\ UNCHANGED <<page_begin, page_end, offset, row_range, overflow_checks,
                   covered_res, page_no>>

Next == CallCovered \/ CallRemaining

Spec == Init /\ [][Next]_vars

\* ------------------------------------------------- ScanSpec: the page scan
\* The first call of a scan satisfies row_range.begin + offset >= page_begin
\* and every page holds at least one value.
ScanInit ==
    /\ page_begin \in Vals
    /\ \E n \in 1..MaxCount : page_end = page_begin + n - 1
    /\ offset \in Vals
    /\ row_range \in {RowRange(b, e) : b \in Vals, e \in Vals}
    /\ row_range.begin <= row_range.end
    /\ row_range.begin + offset >= page_begin
    /\ overflow_checks \in BOOLEAN
    /\ covered_res = NotCalled
    /\ remaining_res = NotCalled
    /\ page_no = 0

\* one page of the scan: both resolver operations on the outstanding range
ScanResolve ==
    /\ covered_res.kind = "NotCalled"
    /\ remaining_res.kind = "NotCalled"
    /\ covered_res' = get_data_page_covered_range(
                          page_begin, page_end, offset, row_range,
                          overflow_checks)
    /\ remaining_res' = get_data_page_remaining_range(
                            page_begin, page_end, offset, row_range,
                            overflow_checks)
    /\ UNCHANGED <<page_begin, page_end, offset, row_range, overflow_checks,
                   page_no>>

\* replace the outstanding range with the remaining slice (stop if none),
\* advance the offset by the page's value count, proceed to the next page
ScanAdvance ==
    /\ remaining_res.kind = "Some"
    /\ covered_res.kind \in {"Some", "None"}
    /\ page_no < MaxPages
    /\ \E n \in 1..MaxCount :
          /\ row_range' = RowRange(remaining_res.begin, remaining_res.end)
          /\ offset' = offset + (page_end - page_begin + 1)
          /\ page_begin' = page_end + 1
          /\ page_end' = page_end + n
    /\ page_no' = page_no + 1
    /\ covered_res' = NotCalled
    /\ remaining_res' = NotCalled
    /\ UNCHANGED overflow_checks

ScanNext == ScanResolve \/ ScanAdvance

ScanSpec == ScanInit /\ [][ScanNext]_vars

\* ------------------------------------------------------------ properties
Called(r) == r.kind # "NotCalled"
BothCalled == Called(covered_res) /\ Called(remaining_res)

\* the resolver precondition, row_range.begin + offset >= page_begin
Precondition == row_range.begin + offset >= page_begin
WellFormedInput == row_range.begin <= row_range.end

\* row position p belongs to the range a call returned
InRange(p, r) == r.kind = "Some" /\ r.begin <= p /\ p <= r.end
Positions == 0..(UsizeModulus - 1)

\* C1 (as stated): with identical arguments no row position belongs to both
\* returned ranges; if both calls return a range, remaining.begin >
\* covered.end.
C1_NoDoubleCount ==
    (BothCalled /\ WellFormedInput /\ Precondition) =>
        /\ \A p \in Positions :
              ~(InRange(p, covered_res) /\ InRange(p, remaining_res))
        /\ (covered_res.kind = "Some" /\ remaining_res.kind = "Some")
              => remaining_res.begin > covered_res.end

\* C1 (amended): when both calls return a range, the covered range ends and
\* the remaining range begins at the same position page_end - offset, and
\* that position is the only one the two ranges share.
C1_SharedBoundaryOnly ==
    (BothCalled /\ WellFormedInput /\ Precondition
       /\ covered_res.kind = "Some" /\ remaining_res.kind = "Some") =>
        /\ covered_res.end = page_end - offset
        /\ remaining_res.begin = page_end - offset
        /\ \A p \in Positions :
              (InRange(p, covered_res) /\ InRange(p, remaining_res))
                 <=> p = page_end - offset

C1_Witness ==
    /\ BothCalled /\ WellFormedInput /\ Precondition
    /\ covered_res.kind = "Some" /\ remaining_res.kind = "Some"
    /\ covered_res.begin < covered_res.end
    /\ remaining_res.begin < remaining_res.end

\* C2: with identical arguments every row position of the input range lies
\* in the covered range or in the remaining range, and neither returned
\* range contains a position outside the input range.
C2_NoRowDropped ==
    (BothCalled /\ WellFormedInput /\ Precondition) =>
        /\ \A p \in row_range.begin..row_range.end :
              InRange(p, covered_res) \/ InRange(p, remaining_res)
        /\ \A p \in Positions :
              (InRange(p, covered_res) \/ InRange(p, remaining_res))
                 => (row_range.begin <= p /\ p <= row_range.end)

\* C3: both operations return the range-consistency error whenever
\* row_range.begin + offset < page_begin, whatever page_end and
\* row_range.end are, and the error is returned before page_end - offset is
\* evaluated.
C3_ErrBeforeAnythingElse ==
    ~Precondition =>
        /\ Called(covered_res) =>
              (covered_res.kind = "Err" /\ ~covered_res.sub)
        /\ Called(remaining_res) =>
              (remaining_res.kind = "Err" /\ ~remaining_res.sub)

C3_Witness ==
    /\ ~Precondition
    /\ page_end < offset /\ page_end < page_begin
    /\ covered_res.kind = "Err" /\ remaining_res.kind = "Err"

\* C4: under the precondition the covered operation returns no range iff
\* row_range.begin + offset > page_end; a range whose translated begin is
\* exactly page_end is reported covered.
C4_CoveredNoneIff ==
    (Called(covered_res) /\ Precondition) =>
        /\ covered_res.kind = "None" <=> row_range.begin + offset > page_end
        /\ row_range.begin + offset = page_end => covered_res.kind = "Some"

C4_Witness ==
    /\ Precondition
    /\ row_range.begin + offset = page_end
    /\ covered_res.kind = "Some"

\* C5: under the precondition the remaining operation returns no range iff
\* row_range.end + offset <= page_end.
C5_RemainingNoneIff ==
    (Called(remaining_res) /\ Precondition) =>
        (remaining_res.kind = "None" <=> row_range.end + offset <= page_end)

C5_Witness ==
    /\ Precondition
    /\ row_range.end + offset = page_end
    /\ remaining_res.kind = "None"

\* C6: a range returned by the covered operation is exactly
\* (row_range.begin, min(row_range.end, page_end - offset)), and its end
\* translated to page coordinates does not exceed page_end.
C6_CoveredRangeValue ==
    covered_res.kind = "Some" =>
        /\ covered_res.begin = row_range.begin
        /\ covered_res.end = Min(row_range.end, page_end - offset)
        /\ covered_res.end + offset <= page_end

C6_Witness ==
    /\ covered_res.kind = "Some"
    /\ row_range.end + offset > page_end
    /\ covered_res.end < row_range.end

\* C7: a range returned by the remaining operation is exactly
\* (max(row_range.begin, page_end - offset), row_range.end), and an input
\* range that starts strictly after the page is returned unchanged
\* (inputs taken with begin <= end, the RowRange invariant).
C7_RemainingRangeValue ==
    /\ (WellFormedInput /\ remaining_res.kind = "Some") =>
          /\ remaining_res.begin = Max(row_range.begin, page_end - offset)
          /\ remaining_res.end = row_range.end
    /\ (WellFormedInput /\ Called(remaining_res) /\ Precondition
          /\ row_range.begin + offset > page_end) =>
          /\ remaining_res.kind = "Some"
          /\ remaining_res.begin = row_range.begin
          /\ remaining_res.end = row_range.end

\* C8: in a scan whose first call satisfies the precondition, every later
\* page is called with row_range.begin + offset >= page_begin, and neither
\* operation returns the range-consistency error there.
C8_ScanKeepsPrecondition ==
    page_no >= 1 =>
        /\ LET b == usize_add(row_range.begin, offset, overflow_checks)
           IN  b.ok /\ b.val >= page_begin
        /\ covered_res.kind # "Err"
        /\ remaining_res.kind # "Err"

C8_Witness ==
    /\ page_no >= 2
    /\ remaining_res.kind = "Some"
    /\ row_range.begin + offset = page_begin

\* C9: under the precondition, page_end - offset is evaluated only when
\* offset <= page_end, and neither operation fails in any other way than
\* the range-consistency error.
C9_NoUnderflow ==
    Precondition =>
        /\ covered_res.sub => offset <= page_end
        /\ remaining_res.sub => offset <= page_end
        /\ covered_res.kind # "Panic"
        /\ remaining_res.kind # "Panic"

\* C10: for a well-formed input under the precondition, every returned
\* range has begin <= end.
C10_ReturnedRangesWellFormed ==
    (WellFormedInput /\ Precondition) =>
        /\ covered_res.kind = "Some" => covered_res.begin <= covered_res.end
        /\ remaining_res.kind = "Some" =>
              remaining_res.begin <= remaining_res.end

====
